---- MODULE Spec2Model ----
(***************************************************************************)
(* Model of scripts/generate_content.py: the catalog generator that reads  *)
(* catalog/videos.json, probes YouTube through yt-dlp and oEmbed, and      *)
(* writes one JSON document per channel role and per playlist.             *)
(*                                                                         *)
(* Strings whose characters the code inspects (ids, titles) are sequences  *)
(* of one-character strings.  JSON values that may be absent, null or of   *)
(* the wrong shape are records tagged by a field k.                        *)
(***************************************************************************)
EXTENDS Integers, Sequences, FiniteSets, TLC

\* ---------------------------------------------------------------- bounds
\* longest input list (videos.json "items") the runs are started with
MaxItems == 2
\* longest entries / thumbnails list given to the collectors and selectors
MaxEntries == 3

\* ---------------------------------------------------------------- values
None == "<None>"
\* outcome marker: the Python expression raised an exception
Raise == "<raise>"

Null == [k |-> "null", v |-> <<>>]
NonList == [k |-> "nonlist", v |-> <<>>]
List(s) == [k |-> "list", v |-> s]

\* thumbnail records: url "" stands for a missing, null or empty url
NullThumb == [k |-> "null", url |-> ""]
JunkThumb == [k |-> "junk", url |-> ""]
Thumb(u) == [k |-> "rec", url |-> u]

\* string-valued JSON fields (id, title)
NullStr == [k |-> "null", s |-> <<>>]
NonStr == [k |-> "nonstr", s |-> <<>>]
Str(s) == [k |-> "str", s |-> s]

\* ---------------------------------------------------------------- strings
startswith(s, prefix) ==
    /\ Len(s) >= Len(prefix)
    /\ SubSeq(s, 1, Len(prefix)) = prefix

RECURSIVE lstrip(_)
lstrip(s) ==
    IF s # <<>> /\ Head(s) = " " THEN lstrip(Tail(s)) ELSE s

RECURSIVE rstrip(_)
rstrip(s) ==
    IF s # <<>> /\ s[Len(s)] = " " THEN rstrip(SubSeq(s, 1, Len(s) - 1)) ELSE s

\* str.strip()
strip(s) == rstrip(lstrip(s))

\* (x.get(field) or "") for a string-valued field; a truthy non-string stays
OrEmpty(f) == IF f.k = "str" THEN f.s ELSE <<>>

\* ---------------------------------------------------------------- thumbnails
\* a scan that keeps the first url of the list instead of the last
ScanForward(thumbs, i) ==
    LET hits == {n \in 1..i : thumbs[n].url # ""}
    IN  IF \E n \in 1..i : thumbs[n].k = "junk" THEN Raise
        ELSE IF hits = {} THEN None
        ELSE thumbs[CHOOSE n \in hits : \A m \in hits : n <= m].url

RECURSIVE ScanReversed(_, _)
ScanReversed(thumbs, i) ==
    IF i = 0 THEN None
    ELSE IF thumbs[i].k = "junk" THEN Raise
    ELSE IF thumbs[i].url # "" THEN thumbs[i].url
    ELSE ScanReversed(thumbs, i - 1)

_pick_thumb_from_list(thumbs) ==
    IF thumbs.k # "list" \/ thumbs.v = <<>> THEN None
    ELSE ScanReversed(thumbs.v, Len(thumbs.v))

RECURSIVE PickAnyFrom(_, _, _)
PickAnyFrom(obj, keys, i) ==
    IF i > Len(keys) THEN None
    ELSE LET u == _pick_thumb_from_list(obj[keys[i]])
         IN  IF u # None THEN u ELSE PickAnyFrom(obj, keys, i + 1)

\* obj maps field names to thumbnail-list values; a Raise of the selector
\* propagates (it is not None, so it is returned as the outcome)
_pick_thumb_any(obj, keys) == PickAnyFrom(obj, keys, 1)

\* ---------------------------------------------------------------- probe documents
\* what _run_json returns or raises: ok = FALSE is a raised failure of kind err
ProbeFailures == {"Timeout", "ExternalToolFailure", "MalformedResponse"}
NoDoc == [title |-> NullStr, thumbnails |-> Null, channel_thumbnails |-> Null,
          entries |-> Null]
Failed(kind) == [ok |-> FALSE, err |-> kind, j |-> NoDoc]
Answer(j) == [ok |-> TRUE, err |-> "", j |-> j]

\* entries of a flat listing; a null entry reads as the empty record
Entry(id, title, thumbs) ==
    [k |-> "rec", id |-> id, title |-> title, thumbnails |-> thumbs,
     uploader_thumbnails |-> Null]
NullEntry == [k |-> "null", id |-> NullStr, title |-> NullStr, thumbnails |-> Null,
              uploader_thumbnails |-> Null]
\* an entry that is no record (a bare string or number): .get raises on it
JunkEntry == [k |-> "junk", id |-> NullStr, title |-> NullStr, thumbnails |-> Null,
              uploader_thumbnails |-> Null]

\* (j.get("entries") or [])
EntriesOf(j) == IF j.entries.k = "list" THEN j.entries.v ELSE <<>>

PlaylistPrefix == <<"P", "L">>
PlaylistUrl == "https://www.youtube.com/playlist?list="
WatchUrl == "https://www.youtube.com/watch?v="

CatalogItem(eid, title, base, thumb, type) ==
    [id |-> eid, title |-> title, url |-> [base |-> base, id |-> eid],
     thumbnail |-> thumb, type |-> type, categories |-> <<>>, lang |-> None]

\* a prefix test that looks at the first character only
SkippedByFirstChar(eid, kind) ==
    IF kind = "playlists" THEN ~startswith(eid, <<"P">>) ELSE eid = <<>>

\* the loop body's test that skips an entry
Skipped(eid, kind) ==
    IF kind = "playlists" THEN ~startswith(eid, PlaylistPrefix) ELSE eid = <<>>

\* the for-loop of the three collectors; raised = an exception left the loop
RECURSIVE FlatLoop(_, _, _, _, _, _)
FlatLoop(entries, i, out, kind, base, type) ==
    IF i > Len(entries) THEN [raised |-> FALSE, out |-> out]
    ELSE LET e == entries[i]
             eid == OrEmpty(e.id)
             thumb == _pick_thumb_from_list(e.thumbnails)
         IN  IF e.k = "junk" THEN [raised |-> TRUE, out |-> <<>>]
             ELSE IF Skipped(eid, kind)
                  THEN FlatLoop(entries, i + 1, out, kind, base, type)
             ELSE IF thumb = Raise THEN [raised |-> TRUE, out |-> <<>>]
             ELSE FlatLoop(entries, i + 1,
                           Append(out, CatalogItem(eid, OrEmpty(e.title), base,
                                                   thumb, type)),
                           kind, base, type)

\* try: ... return out / except Exception: return []
Collected(r, kind, base, type) ==
    IF ~r.ok THEN <<>>
    ELSE LET res == FlatLoop(EntriesOf(r.j), 1, <<>>, kind, base, type)
         IN  IF res.raised THEN <<>> ELSE res.out

collect_playlists(r) == Collected(r, "playlists", PlaylistUrl, "youtube_playlist")

collect_channel_videos(r) == Collected(r, "videos", WatchUrl, "youtube_video")

collect_playlist_items(r) == Collected(r, "videos", WatchUrl, "youtube_video")

\* ---------------------------------------------------------------- avatar stages
AvatarKeys == <<"channel_thumbnails", "thumbnails">>

\* stage 1 of fetch_channel_avatar on the /about answer: the avatar it
\* returns, or None when the stage falls through (no url, or it raised)
AvatarFromAbout(r) ==
    IF ~r.ok THEN None
    ELSE LET avatar == _pick_thumb_any(r.j, AvatarKeys)
         IN  IF avatar = Raise THEN None ELSE avatar

\* a stage 2 without its try/except
AvatarFromVideosUncaught(r) ==
    IF ~r.ok THEN Raise
    ELSE LET root == _pick_thumb_any(r.j, AvatarKeys)
             entries == EntriesOf(r.j)
         IN  IF root # None THEN root
             ELSE IF entries = <<>> THEN None
             ELSE IF entries[1].k = "junk" THEN Raise
             ELSE _pick_thumb_any(entries[1], <<"uploader_thumbnails">>)

\* stage 2 on the /videos --playlist-items 1 answer
AvatarFromVideos(r) ==
    IF ~r.ok THEN None
    ELSE LET root == _pick_thumb_any(r.j, AvatarKeys)
             entries == EntriesOf(r.j)
             first == IF entries = <<>> THEN None
                      ELSE IF entries[1].k = "junk" THEN Raise
                      ELSE _pick_thumb_any(entries[1], <<"uploader_thumbnails">>)
             avatar == IF root # None THEN root ELSE first
         IN  IF avatar = Raise THEN None ELSE avatar

\* ---------------------------------------------------------------- playlist meta
Nothing == [some |-> FALSE, doc |-> [playlistId |-> <<>>, title |-> <<>>,
            thumbnail |-> "", generatedAt |-> 0, source |-> ""]]
Some(d) == [some |-> TRUE, doc |-> d]

PlaylistMetaDocument(pl_id, title, thumb, now, source) ==
    [playlistId |-> pl_id, title |-> title, thumbnail |-> thumb,
     generatedAt |-> now, source |-> source]

\* outcome of the oEmbed GET: kind "ok" carries the parsed body
OembedFailures == {"HTTP404", "HTTP403", "network", "timeout", "malformed"}
OembedBody(title, thumb) == [kind |-> "ok", title |-> title, thumbnail_url |-> thumb]
OembedFailed(kind) == [kind |-> kind, title |-> NullStr, thumbnail_url |-> ""]

\* an _oembed_playlist without its "if thumb:" test
_oembed_playlist_any_thumb(pl_id, o, now) ==
    IF o.kind # "ok" \/ o.title.k = "nonstr" THEN Nothing
    ELSE Some([playlistId |-> pl_id, title |-> strip(OrEmpty(o.title)),
               thumbnail |-> o.thumbnail_url, generatedAt |-> now, source |-> "oembed"])

_oembed_playlist(pl_id, o, now) ==
    IF o.kind # "ok" THEN Nothing
    ELSE IF o.title.k = "nonstr" THEN Nothing
    ELSE IF o.thumbnail_url # ""
         THEN Some(PlaylistMetaDocument(pl_id, strip(OrEmpty(o.title)),
                                        o.thumbnail_url, now, "oembed"))
    ELSE Nothing

\* a try block that forgets the fallback to the first entry's thumbnails
MetaTryRootOnly(pl_id, r, now) ==
    IF ~r.ok \/ r.j.title.k = "nonstr" THEN [how |-> "raised", meta |-> Nothing]
    ELSE LET thumb == _pick_thumb_from_list(r.j.thumbnails)
         IN  IF thumb = Raise THEN [how |-> "raised", meta |-> Nothing]
             ELSE IF thumb = None THEN [how |-> "return", meta |-> Nothing]
             ELSE [how |-> "return",
                   meta |-> Some([playlistId |-> pl_id,
                                  title |-> strip(OrEmpty(r.j.title)),
                                  thumbnail |-> thumb, generatedAt |-> now,
                                  source |-> "yt-dlp"])]

\* a try block in which an answer without thumbnail counts as a failure
MetaTryThumblessRaises(pl_id, r, now) ==
    IF ~r.ok \/ r.j.title.k = "nonstr" THEN [how |-> "raised", meta |-> Nothing]
    ELSE LET root == _pick_thumb_from_list(r.j.thumbnails)
             entries == EntriesOf(r.j)
             first_ == IF entries = <<>> THEN None
                       ELSE IF entries[1].k = "junk" THEN Raise
                       ELSE _pick_thumb_from_list(entries[1].thumbnails)
             thumb == IF root # None THEN root ELSE first_
         IN  IF thumb \in {Raise, None} THEN [how |-> "raised", meta |-> Nothing]
             ELSE [how |-> "return",
                   meta |-> Some([playlistId |-> pl_id,
                                  title |-> strip(OrEmpty(r.j.title)),
                                  thumbnail |-> thumb, generatedAt |-> now,
                                  source |-> "yt-dlp"])]

\* one pass of the try block of fetch_playlist_meta on the yt-dlp answer:
\* "raised" (the except branch), or "return" with the value returned
MetaTry(pl_id, r, now) ==
    IF ~r.ok \/ r.j.title.k = "nonstr" THEN [how |-> "raised", meta |-> Nothing]
    ELSE LET title == strip(OrEmpty(r.j.title))
             root == _pick_thumb_from_list(r.j.thumbnails)
             entries == EntriesOf(r.j)
             first == IF entries = <<>> THEN None
                      ELSE IF entries[1].k = "junk" THEN Raise
                      ELSE _pick_thumb_from_list(entries[1].thumbnails)
             thumb == IF root # None THEN root ELSE first
         IN  IF thumb = Raise THEN [how |-> "raised", meta |-> Nothing]
             ELSE IF thumb = None THEN [how |-> "return", meta |-> Nothing]
             ELSE [how |-> "return",
                   meta |-> Some(PlaylistMetaDocument(pl_id, title, thumb, now,
                                                      "yt-dlp"))]

\* default of the retries parameter of fetch_playlist_meta
DefaultRetries == 1
\* time.sleep(3) between attempts
BackoffSec == 3

\* ---------------------------------------------------------------- input
\* a missing, null or empty channelId / id is the empty string <<>>
Descriptor(type, channelId, id) == [type |-> type, channelId |-> channelId, id |-> id]

UC1 == <<"U", "C", "1">>
UC2 == <<"U", "C", "2">>
PL1 == <<"P", "L", "1">>
PL2 == <<"P", "L", "2">>
VIDMIX == <<"V", "I", "D", "M", "I", "X">>
V1 == <<"v", "1">>

Descriptors ==
    {Descriptor("youtube_channel_playlists", c, <<>>) : c \in {<<>>, UC1, UC2}}
    \cup {Descriptor("youtube_channel_shorts", c, <<>>) : c \in {<<>>, UC1}}
    \cup {Descriptor("youtube_playlist", <<>>, i) : i \in {<<>>, PL1}}
    \cup {Descriptor("youtube_video", <<>>, V1)}

SeqsUpTo(S, n) == UNION {[1..m -> S] : m \in 0..n}

\* videos.json: absent, or present with an items list
Inputs ==
    {[exists |-> FALSE, items |-> <<>>]}
    \cup {[exists |-> TRUE, items |-> its] : its \in SeqsUpTo(Descriptors, MaxItems)}

\* ord() of the characters that occur in channel ids
ord(c) ==
    CASE c = "1" -> 49 [] c = "2" -> 50 [] c = "C" -> 67 [] c = "U" -> 85
      [] OTHER -> 0

\* Python's str ordering: a < b
RECURSIVE StrLess(_, _)
StrLess(a, b) ==
    IF b = <<>> THEN FALSE
    ELSE IF a = <<>> THEN TRUE
    ELSE IF Head(a) # Head(b) THEN ord(Head(a)) < ord(Head(b))
    ELSE StrLess(Tail(a), Tail(b))

\* sorted(set)
RECURSIVE sorted(_)
sorted(S) ==
    IF S = {} THEN <<>>
    ELSE LET m == CHOOSE x \in S : \A y \in S \ {x} : StrLess(x, y)
         IN  <<m>> \o sorted(S \ {m})

\* channel ids in the order of the file, repeated as often as declared
ChannelsOfList(items, type) ==
    SelectSeq([i \in DOMAIN items |->
                  IF items[i].type = type THEN items[i].channelId ELSE <<>>],
              LAMBDA c : c # <<>>)

ChannelsOf(items, type) ==
    sorted({items[i].channelId : i \in {n \in 1..Len(items) :
                /\ items[n].type = type
                /\ items[n].channelId # <<>>}})

RECURSIVE PlaylistIdsOf(_)
PlaylistIdsOf(items) ==
    IF items = <<>> THEN <<>>
    ELSE LET it == Head(items)
         IN  (IF it.type = "youtube_playlist" /\ it.id # <<>> THEN <<it.id>> ELSE <<>>)
             \o PlaylistIdsOf(Tail(items))

\* ---------------------------------------------------------------- documents, files
Path(dir, name) == [dir |-> dir, name |-> name]

ChannelDocument(ch, avatar, now, items) ==
    [channelId |-> ch, channelAvatar |-> avatar, generatedAt |-> now, items |-> items]

PlaylistItemsDocument(pl_id, now, items) ==
    [playlistId |-> pl_id, generatedAt |-> now, items |-> items]

\* a file: the text of doc, none of it yet ("empty"), part of it, or all of it
File(state, doc) == [state |-> state, doc |-> doc]

Put(f, key, v) == (key :> v) @@ f
Remove(f, key) == [x \in DOMAIN f \ {key} |-> f[x]]

\* ---------------------------------------------------------------- the outside world
Doc(title, thumbs, chthumbs, entries) ==
    [title |-> title, thumbnails |-> thumbs, channel_thumbnails |-> chthumbs,
     entries |-> entries]

Failures == {Failed(kind) : kind \in ProbeFailures}

TitleMy == <<"M", "y">>
TitlePadded == <<" ", "M", "y", " ">>

\* what yt-dlp may answer for <channel>/about
AboutAnswers ==
    Failures \cup
    {Answer(NoDoc),
     Answer(Doc(NullStr, Null, List(<<Thumb("avatarA")>>), Null))}

\* ... for <channel>/videos --playlist-items 1
VideosFirstAnswers ==
    Failures \cup
    {Answer(NoDoc),
     Answer(Doc(NullStr, List(<<Thumb("avatarB")>>), Null, Null)),
     Answer(Doc(NullStr, Null, Null,
                List(<<[Entry(Str(V1), NullStr, Null)
                        EXCEPT !.uploader_thumbnails = List(<<Thumb("avatarB")>>)]>>)))}

\* ... for <channel>/playlists --flat-playlist
PlaylistsAnswers ==
    Failures \cup
    {Answer(Doc(NullStr, Null, Null,
                List(<<Entry(Str(PL1), Str(TitleMy), Null),
                       Entry(Str(VIDMIX), NullStr, Null)>>))),
     Answer(Doc(NullStr, Null, Null,
                List(<<Entry(Str(PL2), NullStr, List(<<Thumb("t2")>>)),
                       Entry(Str(PL1), Str(TitleMy), Null)>>)))}

\* ... for <channel>/videos --flat-playlist
ChannelVideosAnswers ==
    Failures \cup
    {Answer(Doc(NullStr, Null, Null,
                List(<<Entry(Str(V1), Str(TitleMy), List(<<Thumb("t1")>>)),
                       NullEntry>>)))}

\* ... for playlist?list=<id> --flat-playlist
PlaylistItemsAnswers ==
    Failures \cup
    {Answer(Doc(NullStr, Null, Null,
                List(<<Entry(Str(<<>>), NullStr, Null),
                       Entry(Str(V1), Str(TitleMy), Null)>>)))}

\* ... for playlist?list=<id> -J (the full probe of fetch_playlist_meta)
MetaAnswers ==
    Failures \cup
    {Answer(Doc(Str(TitlePadded), List(<<Thumb("thumbR")>>), Null, Null)),
     Answer(Doc(Str(TitleMy), Null, Null,
                List(<<Entry(Str(V1), NullStr, List(<<Thumb("thumbE")>>))>>))),
     Answer(Doc(Str(TitleMy), Null, Null, Null))}

\* what the oEmbed endpoint may answer
OembedOutcomes ==
    {OembedFailed(kind) : kind \in OembedFailures} \cup
    {OembedBody(Str(TitlePadded), "thumbO"),
     OembedBody(Str(TitleMy), ""),
     OembedBody(NonStr, "thumbO")}

\* ---------------------------------------------------------------- state
VARIABLES
    input,             \* catalog/videos.json as found by this run
    pc,                \* position of the process in main()
    dirs,              \* directories created by ensure_dirs
    phase,             \* which of main's three for-loops is running
    ch_for_playlists, ch_for_shorts, pl_ids,
    idx,               \* position in the running for-loop's list
    avatar, playlists, \* locals of main
    pidx,              \* position in "for p in playlists"
    retries, attempt,  \* parameter and loop variable of fetch_playlist_meta
    meta,              \* value returned by fetch_playlist_meta
    written,
    wr,                \* arguments of the running write_json call
    fs,                \* final paths -> file
    tmpfs,             \* final path -> file at its sibling .json.tmp path
    exitStatus,
    clock,             \* datetime.utcnow(), advancing with every reading
    calls,             \* observation: function last entered, what it invoked
                       \* and the seconds it slept
    lookup,            \* observation: oEmbed outcome and _oembed_playlist's value
    probeSeen,         \* observation: last yt-dlp answer inside fetch_playlist_meta
    avatarLog,         \* observation: fetch_channel_avatar calls and their values
    okSrc,             \* observation: channel documents with a probe that succeeded
    writeLog,          \* observation: final paths in the order they were replaced
    fname, farg, fret, \* a function called on its own: name, argument, value
    run,               \* 0: one run; 1, 2: first and second of two runs in a row
    tape,              \* the outside world's answers to the first run, in order
    pos,               \* next answer of tape the second run will be given
    first              \* the final paths as the first run left them

vars == <<input, pc, dirs, phase, ch_for_playlists, ch_for_shorts, pl_ids, idx,
          avatar, playlists, pidx, retries, attempt, meta, written, wr, fs, tmpfs,
          exitStatus, clock, calls, lookup, probeSeen, avatarLog, okSrc, writeLog,
          fname, farg, fret, run, tape, pos, first>>

locals == <<phase, ch_for_playlists, ch_for_shorts, pl_ids, idx, avatar, playlists,
            pidx, retries, attempt, meta, written, wr>>
disk == <<fs, tmpfs>>
observed == <<calls, lookup, probeSeen, avatarLog, okSrc, writeLog>>
alone == <<fname, farg, fret>>
replay == <<run, tape, pos, first>>

\* a single run: nothing is recorded or played back
Single == run = 0 /\ tape = <<>> /\ pos = 0 /\ first = <<>>

\* the outside world gives answer r to the call being made: any answer in a
\* single run and in the first of two runs (which records it), and in the
\* second run the answer the same call got in the first
Heard(r) ==
    CASE run = 0 -> UNCHANGED replay
      [] run = 1 -> tape' = Append(tape, r) /\ UNCHANGED <<run, pos, first>>
      [] run = 2 -> /\ pos <= Len(tape)
                    /\ r = tape[pos]
                    /\ pos' = pos + 1
                    /\ UNCHANGED <<run, tape, first>>

NoExit == -1
NoWrite == [path |-> Path("", <<>>), ret |-> ""]
NoCall == [fn |-> "", probes |-> 0, lookups |-> 0, slept |-> 0]
NoLookup == [o |-> OembedFailed(""), ret |-> Nothing]
Enter(fn) == [fn |-> fn, probes |-> 0, lookups |-> 0, slept |-> 0]

Init ==
    /\ input \in Inputs
    /\ pc = "main"
    /\ dirs = {}
    /\ phase = ""
    /\ ch_for_playlists = <<>>
    /\ ch_for_shorts = <<>>
    /\ pl_ids = <<>>
    /\ idx = 0
    /\ avatar = None
    /\ playlists = <<>>
    /\ pidx = 0
    /\ retries = DefaultRetries
    /\ attempt = 0
    /\ meta = Nothing
    /\ written = 0
    /\ wr = NoWrite
    /\ fs = <<>>
    /\ tmpfs = <<>>
    /\ exitStatus = NoExit
    /\ clock = 0
    /\ calls = NoCall
    /\ lookup = NoLookup
    /\ probeSeen = Failed("")
    /\ avatarLog = <<>>
    /\ okSrc = {}
    /\ writeLog = <<>>
    /\ fname = ""
    /\ farg = Failed("")
    /\ fret = <<>>
    /\ Single

\* the channel of the running channel loop, and the path of its document
Channel == IF phase = "playlists" THEN ch_for_playlists[idx] ELSE ch_for_shorts[idx]
ChannelPath == Path(phase, Channel)

\* ---------------------------------------------------------------- main: loading
AllDirs == {"playlists", "shorts", "playlist_meta", "playlist_items"}

\* a load_videos that treats a missing file as an empty list
load_videos_lenient(in) == [exit |-> FALSE, items |-> in.items]

\* load_videos: the items of videos.json, or sys.exit(1) when it is missing
load_videos(in) ==
    IF ~in.exists THEN [exit |-> TRUE, items |-> <<>>]
    ELSE [exit |-> FALSE, items |-> in.items]

\* main up to the first for-loop: ensure_dirs, load_videos, the two sorted
\* channel sets
Start ==
    /\ pc = "main"
    /\ dirs' = AllDirs
    /\ IF load_videos(input).exit
       THEN /\ pc' = "exit"
            /\ exitStatus' = 1
            /\ UNCHANGED <<phase, ch_for_playlists, ch_for_shorts, written>>
       ELSE /\ pc' = "loop"
            /\ phase' = "playlists"
            /\ ch_for_playlists' =
                   ChannelsOf(load_videos(input).items, "youtube_channel_playlists")
            /\ ch_for_shorts' =
                   ChannelsOf(load_videos(input).items, "youtube_channel_shorts")
            /\ written' = 0
            /\ UNCHANGED exitStatus
    /\ UNCHANGED alone
    /\ UNCHANGED replay
    /\ UNCHANGED <<input, pl_ids, idx, avatar, playlists, pidx, retries, attempt,
                   meta, wr, clock>>
    /\ UNCHANGED disk
    /\ UNCHANGED observed

\* the heads of main's three for-loops, one after the other
Dispatch ==
    /\ pc = "loop"
    /\ \/ /\ phase = "playlists"
          /\ IF idx < Len(ch_for_playlists)
             THEN /\ idx' = idx + 1
                  /\ pc' = "avatar_about"
                  /\ calls' = Enter("fetch_channel_avatar")
                  /\ UNCHANGED <<phase, pl_ids, retries>>
             ELSE /\ phase' = "shorts"
                  /\ idx' = 0
                  /\ UNCHANGED <<pc, calls, pl_ids, retries>>
       \/ /\ phase = "shorts"
          /\ IF idx < Len(ch_for_shorts)
             THEN /\ idx' = idx + 1
                  /\ pc' = "avatar_about"
                  /\ calls' = Enter("fetch_channel_avatar")
                  /\ UNCHANGED <<phase, pl_ids, retries>>
             ELSE /\ phase' = "explicit"
                  /\ idx' = 0
                  /\ pl_ids' = PlaylistIdsOf(input.items)
                  /\ UNCHANGED <<pc, calls, retries>>
       \/ /\ phase = "explicit"
          /\ IF idx < Len(pl_ids)
             THEN /\ idx' = idx + 1
                  /\ pc' = "oembed"
                  /\ retries' = DefaultRetries
                  /\ calls' = Enter("fetch_playlist_meta")
                  /\ UNCHANGED <<phase, pl_ids>>
             ELSE /\ pc' = "tally"
                  /\ UNCHANGED <<phase, idx, calls, pl_ids, retries>>
    /\ UNCHANGED alone
    /\ UNCHANGED replay
    /\ UNCHANGED <<input, dirs, ch_for_playlists, ch_for_shorts, avatar, playlists,
                   pidx, attempt, meta, written, wr, exitStatus, clock>>
    /\ UNCHANGED disk
    /\ UNCHANGED <<lookup, probeSeen, avatarLog, okSrc, writeLog>>

\* ---------------------------------------------------------------- fetch_channel_avatar
Logged(log, ch, role, value) == Append(log, [ch |-> ch, role |-> role, avatar |-> value])

\* stage 1: yt-dlp -J <channel>/about
AvatarAbout(r) ==
    /\ pc = "avatar_about"
    /\ calls' = [calls EXCEPT !.probes = @ + 1]
    /\ okSrc' = IF r.ok THEN okSrc \cup {ChannelPath} ELSE okSrc
    /\ IF AvatarFromAbout(r) # None
       THEN /\ avatar' = AvatarFromAbout(r)
            /\ avatarLog' = Logged(avatarLog, Channel, phase, AvatarFromAbout(r))
            /\ pc' = "list"
       ELSE /\ pc' = "avatar_videos"
            /\ UNCHANGED <<avatar, avatarLog>>
    /\ UNCHANGED alone
    /\ Heard(r)
    /\ UNCHANGED <<input, dirs, phase, ch_for_playlists, ch_for_shorts, pl_ids, idx,
                   playlists, pidx, retries, attempt, meta, written, wr, exitStatus,
                   clock>>
    /\ UNCHANGED disk
    /\ UNCHANGED <<lookup, probeSeen, writeLog>>

\* stage 2: yt-dlp -J --playlist-items 1 <channel>/videos, then return
AvatarVideos(r) ==
    /\ pc = "avatar_videos"
    /\ calls' = [calls EXCEPT !.probes = @ + 1]
    /\ okSrc' = IF r.ok THEN okSrc \cup {ChannelPath} ELSE okSrc
    /\ avatar' = AvatarFromVideos(r)
    /\ avatarLog' = Logged(avatarLog, Channel, phase, AvatarFromVideos(r))
    /\ pc' = "list"
    /\ UNCHANGED alone
    /\ Heard(r)
    /\ UNCHANGED <<input, dirs, phase, ch_for_playlists, ch_for_shorts, pl_ids, idx,
                   playlists, pidx, retries, attempt, meta, written, wr, exitStatus,
                   clock>>
    /\ UNCHANGED disk
    /\ UNCHANGED <<lookup, probeSeen, writeLog>>

\* ---------------------------------------------------------------- main: channel loops
\* a collect_playlists without its try/except: the probe's failure ends main
CollectPlaylistsUncaught(r) ==
    /\ pc = "list"
    /\ phase = "playlists"
    /\ calls' = [Enter("collect_playlists") EXCEPT !.probes = 1]
    /\ okSrc' = IF r.ok THEN okSrc \cup {ChannelPath} ELSE okSrc
    /\ IF r.ok
       THEN /\ playlists' = collect_playlists(r)
            /\ clock' = clock + 1
            /\ wr' = [path |-> ChannelPath,
                      doc |-> [channelId |-> Channel, channelAvatar |-> avatar,
                               generatedAt |-> clock, items |-> collect_playlists(r)],
                      ret |-> "channel"]
            /\ pc' = "write_open"
            /\ UNCHANGED exitStatus
       ELSE /\ pc' = "exit"
            /\ exitStatus' = 1
            /\ UNCHANGED <<playlists, clock, wr>>
    /\ UNCHANGED alone
    /\ Heard(r)
    /\ UNCHANGED <<input, dirs, phase, ch_for_playlists, ch_for_shorts, pl_ids, idx,
                   avatar, pidx, retries, attempt, meta, written>>
    /\ UNCHANGED disk
    /\ UNCHANGED <<lookup, probeSeen, avatarLog, writeLog>>

\* collect_playlists(ch), then the write_json call of the channel document
CollectPlaylists(r) ==
    /\ pc = "list"
    /\ phase = "playlists"
    /\ calls' = [Enter("collect_playlists") EXCEPT !.probes = 1]
    /\ okSrc' = IF r.ok THEN okSrc \cup {ChannelPath} ELSE okSrc
    /\ playlists' = collect_playlists(r)
    /\ clock' = clock + 1
    /\ wr' = [path |-> ChannelPath,
              doc |-> ChannelDocument(Channel, avatar, clock, collect_playlists(r)),
              ret |-> "channel"]
    /\ pc' = "write_open"
    /\ UNCHANGED alone
    /\ Heard(r)
    /\ UNCHANGED <<input, dirs, phase, ch_for_playlists, ch_for_shorts, pl_ids, idx,
                   avatar, pidx, retries, attempt, meta, written, exitStatus>>
    /\ UNCHANGED disk
    /\ UNCHANGED <<lookup, probeSeen, avatarLog, writeLog>>

\* a collect_channel_videos that probes a second time when the first probe fails
CollectChannelVideosRetrying(r) ==
    /\ pc = "list"
    /\ phase = "shorts"
    /\ calls' = IF calls.fn = "collect_channel_videos"
                THEN [calls EXCEPT !.probes = @ + 1]
                ELSE [Enter("collect_channel_videos") EXCEPT !.probes = 1]
    /\ okSrc' = IF r.ok THEN okSrc \cup {ChannelPath} ELSE okSrc
    /\ IF ~r.ok /\ calls.fn # "collect_channel_videos"
       THEN UNCHANGED <<clock, wr, pc>>
       ELSE /\ clock' = clock + 1
            /\ wr' = [path |-> ChannelPath,
                      doc |-> [channelId |-> Channel, channelAvatar |-> avatar,
                               generatedAt |-> clock,
                               items |-> collect_channel_videos(r)],
                      ret |-> "shorts"]
            /\ pc' = "write_open"
    /\ UNCHANGED alone
    /\ Heard(r)
    /\ UNCHANGED <<input, dirs, phase, ch_for_playlists, ch_for_shorts, pl_ids, idx,
                   avatar, playlists, pidx, retries, attempt, meta, written,
                   exitStatus>>
    /\ UNCHANGED disk
    /\ UNCHANGED <<lookup, probeSeen, avatarLog, writeLog>>

\* collect_channel_videos(ch), then the write_json call of the shorts document
CollectChannelVideos(r) ==
    /\ pc = "list"
    /\ phase = "shorts"
    /\ calls' = [Enter("collect_channel_videos") EXCEPT !.probes = 1]
    /\ okSrc' = IF r.ok THEN okSrc \cup {ChannelPath} ELSE okSrc
    /\ clock' = clock + 1
    /\ wr' = [path |-> ChannelPath,
              doc |-> ChannelDocument(Channel, avatar, clock, collect_channel_videos(r)),
              ret |-> "shorts"]
    /\ pc' = "write_open"
    /\ UNCHANGED alone
    /\ Heard(r)
    /\ UNCHANGED <<input, dirs, phase, ch_for_playlists, ch_for_shorts, pl_ids, idx,
                   avatar, playlists, pidx, retries, attempt, meta, written,
                   exitStatus>>
    /\ UNCHANGED disk
    /\ UNCHANGED <<lookup, probeSeen, avatarLog, writeLog>>

\* head of "for p in playlists": entries without an id are skipped
ItemsLoop ==
    /\ pc = "items_loop"
    /\ IF pidx < Len(playlists)
       THEN /\ pidx' = pidx + 1
            /\ pc' = IF playlists[pidx + 1].id = <<>> THEN "items_loop" ELSE "items"
       ELSE /\ pc' = "loop"
            /\ UNCHANGED pidx
    /\ UNCHANGED alone
    /\ UNCHANGED replay
    /\ UNCHANGED <<input, dirs, phase, ch_for_playlists, ch_for_shorts, pl_ids, idx,
                   avatar, playlists, retries, attempt, meta, written, wr,
                   exitStatus, clock>>
    /\ UNCHANGED disk
    /\ UNCHANGED observed

\* a cascade that writes no items document when the listing probe failed
CascadeItemsSkipsFailed(r) ==
    /\ pc = "items"
    /\ phase = "playlists"
    /\ calls' = [Enter("collect_playlist_items") EXCEPT !.probes = 1]
    /\ IF ~r.ok
       THEN /\ pc' = "items_loop"
            /\ UNCHANGED <<clock, wr>>
       ELSE /\ clock' = clock + 1
            /\ wr' = [path |-> Path("playlist_items", playlists[pidx].id),
                      doc |-> [playlistId |-> playlists[pidx].id,
                               generatedAt |-> clock,
                               items |-> collect_playlist_items(r)],
                      ret |-> "cascade"]
            /\ pc' = "write_open"
    /\ UNCHANGED alone
    /\ Heard(r)
    /\ UNCHANGED <<input, dirs, phase, ch_for_playlists, ch_for_shorts, pl_ids, idx,
                   avatar, playlists, pidx, retries, attempt, meta, written,
                   exitStatus>>
    /\ UNCHANGED disk
    /\ UNCHANGED <<lookup, probeSeen, avatarLog, okSrc, writeLog>>

\* collect_playlist_items(pl_id) for a playlist of the channel, then the
\* write_json call of its items document
CascadeItems(r) ==
    /\ pc = "items"
    /\ phase = "playlists"
    /\ calls' = [Enter("collect_playlist_items") EXCEPT !.probes = 1]
    /\ clock' = clock + 1
    /\ wr' = [path |-> Path("playlist_items", playlists[pidx].id),
              doc |-> PlaylistItemsDocument(playlists[pidx].id, clock,
                                            collect_playlist_items(r)),
              ret |-> "cascade"]
    /\ pc' = "write_open"
    /\ UNCHANGED alone
    /\ Heard(r)
    /\ UNCHANGED <<input, dirs, phase, ch_for_playlists, ch_for_shorts, pl_ids, idx,
                   avatar, playlists, pidx, retries, attempt, meta, written,
                   exitStatus>>
    /\ UNCHANGED disk
    /\ UNCHANGED <<lookup, probeSeen, avatarLog, okSrc, writeLog>>

\* ---------------------------------------------------------------- write_json
\* a write_json that opens the final path itself for writing
WriteOpenInPlace ==
    /\ pc = "write_open"
    /\ fs' = Put(fs, wr.path, File("empty", wr.doc))
    /\ tmpfs' = Put(tmpfs, wr.path, File("empty", wr.doc))
    /\ pc' = "write_dump"
    /\ UNCHANGED alone
    /\ UNCHANGED replay
    /\ UNCHANGED <<input, dirs, exitStatus, clock>>
    /\ UNCHANGED locals
    /\ UNCHANGED observed

\* tmp.open("w"): the temporary file exists and is empty
WriteOpen ==
    /\ pc = "write_open"
    /\ tmpfs' = Put(tmpfs, wr.path, File("empty", wr.doc))
    /\ pc' = "write_dump"
    /\ UNCHANGED alone
    /\ UNCHANGED replay
    /\ UNCHANGED <<input, dirs, fs, exitStatus, clock>>
    /\ UNCHANGED locals
    /\ UNCHANGED observed

\* json.dump: part of the text has reached the temporary file
WriteDump ==
    /\ pc = "write_dump"
    /\ tmpfs' = Put(tmpfs, wr.path, File("partial", wr.doc))
    /\ pc' = "write_close"
    /\ UNCHANGED alone
    /\ UNCHANGED replay
    /\ UNCHANGED <<input, dirs, fs, exitStatus, clock>>
    /\ UNCHANGED locals
    /\ UNCHANGED observed

\* a write_json that appends the new items to those of the document in place
WriteCloseMerging ==
    /\ pc = "write_close"
    /\ tmpfs' = Put(tmpfs, wr.path,
                    File("complete",
                         IF wr.path \in DOMAIN fs /\ wr.path.dir # "playlist_meta"
                         THEN [wr.doc EXCEPT !.items = fs[wr.path].doc.items \o @]
                         ELSE wr.doc))
    /\ pc' = "write_replace"
    /\ UNCHANGED alone
    /\ UNCHANGED replay
    /\ UNCHANGED <<input, dirs, fs, exitStatus, clock>>
    /\ UNCHANGED locals
    /\ UNCHANGED observed

\* leaving the with block: the rest is flushed and the file closed
WriteClose ==
    /\ pc = "write_close"
    /\ tmpfs' = Put(tmpfs, wr.path, File("complete", wr.doc))
    /\ pc' = "write_replace"
    /\ UNCHANGED alone
    /\ UNCHANGED replay
    /\ UNCHANGED <<input, dirs, fs, exitStatus, clock>>
    /\ UNCHANGED locals
    /\ UNCHANGED observed

\* a main whose shorts loop lacks its "written += 1"
TallySkipsShorts(n, ret) == IF ret = "shorts" THEN n ELSE n + 1

\* written += 1 after each write_json call of main
Tally(n, ret) == n + 1

\* where main continues after the write_json call it made
Continue(ret) ==
    CASE ret = "channel" -> "items_loop"
      [] ret = "cascade" -> "items_loop"
      [] ret = "shorts" -> "loop"
      [] ret = "meta" -> "explicit_items"
      [] ret = "explicit" -> "loop"

\* tmp.replace(path), and main's statements up to its next call
WriteReplace ==
    /\ pc = "write_replace"
    /\ fs' = Put(fs, wr.path, tmpfs[wr.path])
    /\ tmpfs' = Remove(tmpfs, wr.path)
    /\ writeLog' = Append(writeLog, wr.path)
    /\ written' = Tally(written, wr.ret)
    /\ pidx' = IF wr.ret = "channel" THEN 0 ELSE pidx
    /\ pc' = Continue(wr.ret)
    /\ wr' = NoWrite
    /\ UNCHANGED alone
    /\ UNCHANGED replay
    /\ UNCHANGED <<input, dirs, phase, ch_for_playlists, ch_for_shorts, pl_ids, idx,
                   avatar, playlists, retries, attempt, meta, exitStatus, clock>>
    /\ UNCHANGED <<calls, lookup, probeSeen, avatarLog, okSrc>>

\* ---------------------------------------------------------------- fetch_playlist_meta
\* a fetch_playlist_meta without its "return meta" after the oEmbed lookup
OembedFallsThrough(o) ==
    /\ pc = "oembed"
    /\ calls' = [calls EXCEPT !.lookups = @ + 1]
    /\ lookup' = [o |-> o, ret |-> _oembed_playlist(pl_ids[idx], o, clock)]
    /\ attempt' = 1
    /\ meta' = Nothing
    /\ pc' = IF 1 <= retries THEN "attempt" ELSE "meta_ret"
    /\ UNCHANGED clock
    /\ UNCHANGED alone
    /\ Heard(o)
    /\ UNCHANGED <<input, dirs, phase, ch_for_playlists, ch_for_shorts, pl_ids, idx,
                   avatar, playlists, pidx, retries, written, wr, exitStatus>>
    /\ UNCHANGED disk
    /\ UNCHANGED <<probeSeen, avatarLog, okSrc, writeLog>>

\* meta = _oembed_playlist(pl_id); if meta: return meta; else enter the for-loop
Oembed(o) ==
    /\ pc = "oembed"
    /\ calls' = [calls EXCEPT !.lookups = @ + 1]
    /\ lookup' = [o |-> o, ret |-> _oembed_playlist(pl_ids[idx], o, clock)]
    /\ IF _oembed_playlist(pl_ids[idx], o, clock).some
       THEN /\ meta' = _oembed_playlist(pl_ids[idx], o, clock)
            /\ clock' = clock + 1
            /\ pc' = "meta_ret"
            /\ UNCHANGED attempt
       ELSE /\ attempt' = 1
            /\ meta' = Nothing
            /\ pc' = IF 1 <= retries THEN "attempt" ELSE "meta_ret"
            /\ UNCHANGED clock
    /\ UNCHANGED alone
    /\ Heard(o)
    /\ UNCHANGED <<input, dirs, phase, ch_for_playlists, ch_for_shorts, pl_ids, idx,
                   avatar, playlists, pidx, retries, written, wr, exitStatus>>
    /\ UNCHANGED disk
    /\ UNCHANGED <<probeSeen, avatarLog, okSrc, writeLog>>

\* a for-loop that goes to its next attempt without the sleep
MetaAttemptNoBackoff(r) ==
    /\ pc = "attempt"
    /\ calls' = [calls EXCEPT !.probes = @ + 1]
    /\ probeSeen' = r
    /\ LET t == MetaTry(pl_ids[idx], r, clock)
       IN  IF t.how = "return"
           THEN /\ meta' = t.meta
                /\ clock' = IF t.meta.some THEN clock + 1 ELSE clock
                /\ pc' = "meta_ret"
                /\ UNCHANGED attempt
           ELSE /\ meta' = Nothing
                /\ pc' = IF attempt < retries THEN "attempt" ELSE "meta_ret"
                /\ attempt' = IF attempt < retries THEN attempt + 1 ELSE attempt
                /\ UNCHANGED clock
    /\ UNCHANGED alone
    /\ Heard(r)
    /\ UNCHANGED <<input, dirs, phase, ch_for_playlists, ch_for_shorts, pl_ids, idx,
                   avatar, playlists, pidx, retries, written, wr, exitStatus>>
    /\ UNCHANGED disk
    /\ UNCHANGED <<lookup, avatarLog, okSrc, writeLog>>

\* one attempt of the for-loop: yt-dlp -J <playlist>, the try block and, when
\* it raised, the except branch up to the sleep
MetaAttempt(r) ==
    /\ pc = "attempt"
    /\ calls' = [calls EXCEPT !.probes = @ + 1]
    /\ probeSeen' = r
    /\ LET t == MetaTry(pl_ids[idx], r, clock)
       IN  IF t.how = "return"
           THEN /\ meta' = t.meta
                /\ clock' = IF t.meta.some THEN clock + 1 ELSE clock
                /\ pc' = "meta_ret"
           ELSE /\ meta' = Nothing
                /\ pc' = IF attempt < retries THEN "sleep" ELSE "meta_ret"
                /\ UNCHANGED clock
    /\ UNCHANGED alone
    /\ Heard(r)
    /\ UNCHANGED <<input, dirs, phase, ch_for_playlists, ch_for_shorts, pl_ids, idx,
                   avatar, playlists, pidx, retries, attempt, written, wr,
                   exitStatus>>
    /\ UNCHANGED disk
    /\ UNCHANGED <<lookup, avatarLog, okSrc, writeLog>>

\* time.sleep(3), then the next attempt
MetaSleep ==
    /\ pc = "sleep"
    /\ calls' = [calls EXCEPT !.slept = @ + BackoffSec]
    /\ attempt' = attempt + 1
    /\ pc' = "attempt"
    /\ UNCHANGED alone
    /\ UNCHANGED replay
    /\ UNCHANGED <<input, dirs, phase, ch_for_playlists, ch_for_shorts, pl_ids, idx,
                   avatar, playlists, pidx, retries, meta, written, wr, exitStatus,
                   clock>>
    /\ UNCHANGED disk
    /\ UNCHANGED <<lookup, probeSeen, avatarLog, okSrc, writeLog>>

\* ---------------------------------------------------------------- main: explicit playlists
\* back in main: "if meta:" writes the meta document, else only a warning
MetaReturn ==
    /\ pc = "meta_ret"
    /\ IF meta.some
       THEN /\ wr' = [path |-> Path("playlist_meta", pl_ids[idx]), doc |-> meta.doc,
                      ret |-> "meta"]
            /\ pc' = "write_open"
       ELSE /\ pc' = "explicit_items"
            /\ UNCHANGED wr
    /\ lookup' = NoLookup
    /\ probeSeen' = Failed("")
    /\ UNCHANGED alone
    /\ UNCHANGED replay
    /\ UNCHANGED <<input, dirs, phase, ch_for_playlists, ch_for_shorts, pl_ids, idx,
                   avatar, playlists, pidx, retries, attempt, meta, written,
                   exitStatus, clock>>
    /\ UNCHANGED disk
    /\ UNCHANGED <<calls, avatarLog, okSrc, writeLog>>

\* a main that writes no items document when the listing came back empty
ExplicitItemsSkipsEmpty(r) ==
    /\ pc = "explicit_items"
    /\ calls' = [Enter("collect_playlist_items") EXCEPT !.probes = 1]
    /\ IF collect_playlist_items(r) = <<>>
       THEN /\ pc' = "loop"
            /\ UNCHANGED <<clock, wr>>
       ELSE /\ clock' = clock + 1
            /\ wr' = [path |-> Path("playlist_items", pl_ids[idx]),
                      doc |-> [playlistId |-> pl_ids[idx], generatedAt |-> clock,
                               items |-> collect_playlist_items(r)],
                      ret |-> "explicit"]
            /\ pc' = "write_open"
    /\ UNCHANGED alone
    /\ Heard(r)
    /\ UNCHANGED <<input, dirs, phase, ch_for_playlists, ch_for_shorts, pl_ids, idx,
                   avatar, playlists, pidx, retries, attempt, meta, written,
                   exitStatus>>
    /\ UNCHANGED disk
    /\ UNCHANGED <<lookup, probeSeen, avatarLog, okSrc, writeLog>>

\* collect_playlist_items(pl) for a declared playlist, then the write_json call
ExplicitItems(r) ==
    /\ pc = "explicit_items"
    /\ calls' = [Enter("collect_playlist_items") EXCEPT !.probes = 1]
    /\ clock' = clock + 1
    /\ wr' = [path |-> Path("playlist_items", pl_ids[idx]),
              doc |-> PlaylistItemsDocument(pl_ids[idx], clock,
                                            collect_playlist_items(r)),
              ret |-> "explicit"]
    /\ pc' = "write_open"
    /\ UNCHANGED alone
    /\ Heard(r)
    /\ UNCHANGED <<input, dirs, phase, ch_for_playlists, ch_for_shorts, pl_ids, idx,
                   avatar, playlists, pidx, retries, attempt, meta, written,
                   exitStatus>>
    /\ UNCHANGED disk
    /\ UNCHANGED <<lookup, probeSeen, avatarLog, okSrc, writeLog>>

\* ---------------------------------------------------------------- main: the end
\* an exit test that is off by one
ExitCodeOffByOne(n) == IF n <= 1 THEN 2 ELSE 0

ExitCode(n) == IF n = 0 THEN 2 ELSE 0

\* "if written == 0: sys.exit(2)", else the process ends normally
Finish ==
    /\ pc = "tally"
    /\ exitStatus' = ExitCode(written)
    /\ pc' = "exit"
    /\ UNCHANGED alone
    /\ UNCHANGED replay
    /\ UNCHANGED <<input, dirs, clock>>
    /\ UNCHANGED locals
    /\ UNCHANGED disk
    /\ UNCHANGED observed

\* the process is killed (or the machine stops) while it is inside write_json:
\* its memory is gone, the files stay as they are, and so does the record of
\* what was replaced
Crash ==
    /\ pc \in {"write_open", "write_dump", "write_close", "write_replace"}
    /\ pc' = "crashed"
    /\ phase' = ""
    /\ ch_for_playlists' = <<>>
    /\ ch_for_shorts' = <<>>
    /\ pl_ids' = <<>>
    /\ idx' = 0
    /\ avatar' = None
    /\ playlists' = <<>>
    /\ pidx' = 0
    /\ retries' = DefaultRetries
    /\ attempt' = 0
    /\ meta' = Nothing
    /\ written' = 0
    /\ wr' = NoWrite
    /\ calls' = NoCall
    /\ lookup' = NoLookup
    /\ probeSeen' = Failed("")
    /\ avatarLog' = <<>>
    /\ okSrc' = {}
    /\ UNCHANGED alone
    /\ UNCHANGED replay
    /\ UNCHANGED <<input, dirs, exitStatus, clock, writeLog>>
    /\ UNCHANGED disk

\* ---------------------------------------------------------------- specifications
Run ==
    \/ Start
    \/ Dispatch
    \/ \E r \in AboutAnswers : AvatarAbout(r)
    \/ \E r \in VideosFirstAnswers : AvatarVideos(r)
    \/ \E r \in PlaylistsAnswers : CollectPlaylists(r)
    \/ \E r \in ChannelVideosAnswers : CollectChannelVideos(r)
    \/ ItemsLoop
    \/ \E r \in PlaylistItemsAnswers : CascadeItems(r)
    \/ WriteOpen
    \/ WriteDump
    \/ WriteClose
    \/ WriteReplace
    \/ \E o \in OembedOutcomes : Oembed(o)
    \/ \E r \in MetaAnswers : MetaAttempt(r)
    \/ MetaReturn
    \/ \E r \in PlaylistItemsAnswers : ExplicitItems(r)
    \/ Finish

Next == Run \/ Crash

\* a run of the script, which may be killed at any point
Spec == Init /\ [][Next]_vars

\* the script runs to its end: nothing kills it
FairSpec == Init /\ [][Run]_vars /\ WF_vars(Run)

\* ---------------------------------------------------------------- functions on their own
\* The collectors are functions of the probe's answer, and fetch_playlist_meta
\* is a function of the answers it gets: each is also run alone, on more
\* answers and parameters than one run of main meets.
MaxRetries == 2

CollectorNames == {"collect_playlists", "collect_channel_videos", "collect_playlist_items"}

FlatEntries ==
    {NullEntry, JunkEntry,
     Entry(NullStr, NullStr, Null),
     Entry(Str(<<>>), Str(TitleMy), Null),
     Entry(Str(<<"P">>), NullStr, Null),
     Entry(Str(<<"x", "P", "L">>), NullStr, Null),
     Entry(Str(PL1), Str(TitleMy), List(<<Thumb("t1"), Thumb("")>>)),
     Entry(Str(PL2), NullStr, Null),
     Entry(Str(VIDMIX), NullStr, List(<<Thumb("t1"), JunkThumb>>))}

FlatAnswers ==
    Failures \cup {Answer(NoDoc)} \cup
    {Answer(Doc(NullStr, Null, Null, List(es))) : es \in SeqsUpTo(FlatEntries, MaxEntries)}

Apply(name, r) ==
    CASE name = "collect_playlists" -> collect_playlists(r)
      [] name = "collect_channel_videos" -> collect_channel_videos(r)
      [] name = "collect_playlist_items" -> collect_playlist_items(r)

AtRest ==
    /\ input = [exists |-> TRUE, items |-> <<>>]
    /\ dirs = {}
    /\ phase = ""
    /\ ch_for_playlists = <<>>
    /\ ch_for_shorts = <<>>
    /\ pl_ids = <<>>
    /\ idx = 0
    /\ avatar = None
    /\ playlists = <<>>
    /\ pidx = 0
    /\ retries = DefaultRetries
    /\ attempt = 0
    /\ meta = Nothing
    /\ written = 0
    /\ wr = NoWrite
    /\ fs = <<>>
    /\ tmpfs = <<>>
    /\ exitStatus = NoExit
    /\ clock = 0
    /\ calls = NoCall
    /\ lookup = NoLookup
    /\ probeSeen = Failed("")
    /\ avatarLog = <<>>
    /\ okSrc = {}
    /\ writeLog = <<>>
    /\ Single

CollectInit ==
    /\ AtRest
    /\ pc = "call"
    /\ fname \in CollectorNames
    /\ farg \in FlatAnswers
    /\ fret = <<>>

\* the collector fname runs on the answer farg of its one probe
Collect ==
    /\ pc = "call"
    /\ fret' = Apply(fname, farg)
    /\ pc' = "returned"
    /\ UNCHANGED <<fname, farg, input, dirs, exitStatus, clock>>
    /\ UNCHANGED locals
    /\ UNCHANGED disk
    /\ UNCHANGED observed
    /\ UNCHANGED replay

CollectSpec == CollectInit /\ [][Collect]_vars

\* what yt-dlp may answer to the full probe, for fetch_playlist_meta alone
FullProbeAnswers ==
    MetaAnswers \cup
    {Answer(Doc(NonStr, List(<<Thumb("thumbR")>>), Null, Null)),
     Answer(Doc(NullStr, List(<<Thumb("thumbR"), Thumb("")>>), Null, Null)),
     Answer(Doc(Str(TitleMy), List(<<Thumb("")>>), Null,
                List(<<NullEntry,
                       Entry(Str(V1), NullStr, List(<<Thumb("thumbE")>>))>>))),
     Answer(Doc(Str(TitleMy), List(<<Thumb("thumbR"), JunkThumb>>), Null, Null)),
     Answer(Doc(Str(TitleMy), Null, Null, List(<<JunkEntry>>)))}

\* fetch_playlist_meta(PL1, retries) has just been entered
MetaInit ==
    /\ input = [exists |-> TRUE, items |-> <<Descriptor("youtube_playlist", <<>>, PL1)>>]
    /\ pc = "oembed"
    /\ dirs = AllDirs
    /\ phase = "explicit"
    /\ ch_for_playlists = <<>>
    /\ ch_for_shorts = <<>>
    /\ pl_ids = <<PL1>>
    /\ idx = 1
    /\ avatar = None
    /\ playlists = <<>>
    /\ pidx = 0
    /\ retries \in 1..MaxRetries
    /\ attempt = 0
    /\ meta = Nothing
    /\ written = 0
    /\ wr = NoWrite
    /\ fs = <<>>
    /\ tmpfs = <<>>
    /\ exitStatus = NoExit
    /\ clock = 0
    /\ calls = Enter("fetch_playlist_meta")
    /\ lookup = NoLookup
    /\ probeSeen = Failed("")
    /\ avatarLog = <<>>
    /\ okSrc = {}
    /\ writeLog = <<>>
    /\ fname = ""
    /\ farg = Failed("")
    /\ fret = <<>>
    /\ Single

MetaNext ==
    \/ \E o \in OembedOutcomes : Oembed(o)
    \/ \E r \in FullProbeAnswers : MetaAttempt(r)
    \/ MetaSleep

\* one call of fetch_playlist_meta, up to its return
MetaSpec == MetaInit /\ [][MetaNext]_vars

\* the two thumbnail selectors alone, on every shape of list: records with
\* and without a url, null elements, and elements that are no records
SelectorNames == {"_pick_thumb_from_list", "_pick_thumb_any"}

ThumbElements == {Thumb("a"), Thumb("b"), Thumb(""), NullThumb, JunkThumb}

ThumbLists ==
    {Null, NonList} \cup {List(s) : s \in SeqsUpTo(ThumbElements, MaxEntries)}

\* second field of the object handed to _pick_thumb_any
SecondLists ==
    {Null, NonList, List(<<Thumb("c")>>), List(<<Thumb("")>>), List(<<JunkThumb>>)}

\* the argument: an object whose "thumbnails" (and, for _pick_thumb_any,
\* "channel_thumbnails") field holds the list
SelectorArgs(name) ==
    IF name = "_pick_thumb_from_list"
    THEN {Answer(Doc(NullStr, t, Null, Null)) : t \in ThumbLists}
    ELSE {Answer(Doc(NullStr, t, ct, Null)) : t \in SecondLists, ct \in ThumbLists}

ApplySelector(name, r) ==
    CASE name = "_pick_thumb_from_list" -> _pick_thumb_from_list(r.j.thumbnails)
      [] name = "_pick_thumb_any" -> _pick_thumb_any(r.j, AvatarKeys)

SelectInit ==
    /\ AtRest
    /\ pc = "call"
    /\ fname \in SelectorNames
    /\ farg \in SelectorArgs(fname)
    /\ fret = ""

\* the selector fname runs on its argument: fret is a url, None, or Raise
\* when an exception left the function
Select ==
    /\ pc = "call"
    /\ fret' = ApplySelector(fname, farg)
    /\ pc' = "returned"
    /\ UNCHANGED <<fname, farg, input, dirs, exitStatus, clock>>
    /\ UNCHANGED locals
    /\ UNCHANGED disk
    /\ UNCHANGED observed
    /\ UNCHANGED replay

SelectSpec == SelectInit /\ [][Select]_vars

\* fetch_channel_avatar alone, on answers of every shape; the answers it is
\* given are recorded in tape
AvatarAnswers ==
    Failures \cup
    {Answer(Doc(NullStr, t, ct, e)) :
        t \in {Null, List(<<Thumb("avatarB")>>), List(<<JunkThumb>>)},
        ct \in {Null, NonList, List(<<Thumb("avatarA")>>), List(<<Thumb("")>>),
                List(<<JunkThumb>>)},
        e \in {Null, List(<<>>), List(<<NullEntry>>), List(<<JunkEntry>>),
               List(<<[Entry(Str(V1), NullStr, Null)
                       EXCEPT !.uploader_thumbnails = List(<<Thumb("avatarC")>>)]>>),
               List(<<Entry(Str(V1), NullStr, List(<<Thumb("t1")>>)),
                      [Entry(Str(V1), NullStr, Null)
                       EXCEPT !.uploader_thumbnails = List(<<Thumb("avatarC")>>)]>>)}}

\* fetch_channel_avatar(UC1) has just been entered from the playlists loop
AvatarInit ==
    /\ input = [exists |-> TRUE,
                items |-> <<Descriptor("youtube_channel_playlists", UC1, <<>>)>>]
    /\ pc = "avatar_about"
    /\ dirs = AllDirs
    /\ phase = "playlists"
    /\ ch_for_playlists = <<UC1>>
    /\ ch_for_shorts = <<>>
    /\ pl_ids = <<>>
    /\ idx = 1
    /\ avatar = None
    /\ playlists = <<>>
    /\ pidx = 0
    /\ retries = DefaultRetries
    /\ attempt = 0
    /\ meta = Nothing
    /\ written = 0
    /\ wr = NoWrite
    /\ fs = <<>>
    /\ tmpfs = <<>>
    /\ exitStatus = NoExit
    /\ clock = 0
    /\ calls = Enter("fetch_channel_avatar")
    /\ lookup = NoLookup
    /\ probeSeen = Failed("")
    /\ avatarLog = <<>>
    /\ okSrc = {}
    /\ writeLog = <<>>
    /\ fname = ""
    /\ farg = Failed("")
    /\ fret = <<>>
    /\ run = 1
    /\ tape = <<>>
    /\ pos = 0
    /\ first = <<>>

AvatarNext ==
    \/ \E r \in AvatarAnswers : AvatarAbout(r)
    \/ \E r \in AvatarAnswers : AvatarVideos(r)

\* one call of fetch_channel_avatar, up to its return
AvatarSpec == AvatarInit /\ [][AvatarNext]_vars

\* ---------------------------------------------------------------- two runs in a row
\* The script is run, ends, and is run again on the same videos.json, with the
\* files of the first run in place and every call answered as in the first.
TwiceDescriptors ==
    {Descriptor("youtube_channel_playlists", UC1, <<>>),
     Descriptor("youtube_channel_shorts", UC1, <<>>),
     Descriptor("youtube_playlist", <<>>, PL1)}

TwiceInputs ==
    {[exists |-> FALSE, items |-> <<>>]}
    \cup {[exists |-> TRUE, items |-> its] : its \in SeqsUpTo(TwiceDescriptors, MaxItems)}

\* each call either fails (one kind of failure stands for all: the code
\* catches them alike) or gets the answer that yields the most
Brief(S) == {r \in S : r.ok \/ r.err = "Timeout"}
TwiceAbout == {r \in Brief(AboutAnswers) : r.ok => AvatarFromAbout(r) # None}
TwiceVideosFirst == {r \in Brief(VideosFirstAnswers) : r.ok => EntriesOf(r.j) # <<>>}
TwicePlaylists == {r \in Brief(PlaylistsAnswers) : r.ok => Len(collect_playlists(r)) = 2}
TwiceMeta == {r \in Brief(MetaAnswers) : r.ok => r.j.title.s = TitlePadded}
TwiceOembed ==
    {o \in OembedOutcomes :
        o.kind = "HTTP404" \/ (o.kind = "ok" /\ _oembed_playlist(PL1, o, 0).some)}

TwiceInit ==
    /\ input \in TwiceInputs
    /\ pc = "main"
    /\ dirs = {}
    /\ phase = ""
    /\ ch_for_playlists = <<>>
    /\ ch_for_shorts = <<>>
    /\ pl_ids = <<>>
    /\ idx = 0
    /\ avatar = None
    /\ playlists = <<>>
    /\ pidx = 0
    /\ retries = DefaultRetries
    /\ attempt = 0
    /\ meta = Nothing
    /\ written = 0
    /\ wr = NoWrite
    /\ fs = <<>>
    /\ tmpfs = <<>>
    /\ exitStatus = NoExit
    /\ clock = 0
    /\ calls = NoCall
    /\ lookup = NoLookup
    /\ probeSeen = Failed("")
    /\ avatarLog = <<>>
    /\ okSrc = {}
    /\ writeLog = <<>>
    /\ fname = ""
    /\ farg = Failed("")
    /\ fret = <<>>
    /\ run = 1
    /\ tape = <<>>
    /\ pos = 0
    /\ first = <<>>

\* the first run has ended; the script is started again: a new process, the
\* same videos.json, the files as they are, a later time
Rerun ==
    /\ pc = "exit"
    /\ run = 1
    /\ run' = 2
    /\ pos' = 1
    /\ first' = fs
    /\ pc' = "main"
    /\ exitStatus' = NoExit
    /\ phase' = ""
    /\ ch_for_playlists' = <<>>
    /\ ch_for_shorts' = <<>>
    /\ pl_ids' = <<>>
    /\ idx' = 0
    /\ avatar' = None
    /\ playlists' = <<>>
    /\ pidx' = 0
    /\ retries' = DefaultRetries
    /\ attempt' = 0
    /\ meta' = Nothing
    /\ written' = 0
    /\ wr' = NoWrite
    /\ calls' = NoCall
    /\ lookup' = NoLookup
    /\ probeSeen' = Failed("")
    /\ avatarLog' = <<>>
    /\ okSrc' = {}
    /\ writeLog' = <<>>
    /\ UNCHANGED <<input, dirs, clock, tape>>
    /\ UNCHANGED disk
    /\ UNCHANGED alone

TwiceNext ==
    \/ Start
    \/ Dispatch
    \/ \E r \in TwiceAbout : AvatarAbout(r)
    \/ \E r \in TwiceVideosFirst : AvatarVideos(r)
    \/ \E r \in TwicePlaylists : CollectPlaylists(r)
    \/ \E r \in Brief(ChannelVideosAnswers) : CollectChannelVideos(r)
    \/ ItemsLoop
    \/ \E r \in Brief(PlaylistItemsAnswers) : CascadeItems(r)
    \/ WriteOpen
    \/ WriteDump
    \/ WriteClose
    \/ WriteReplace
    \/ \E o \in TwiceOembed : Oembed(o)
    \/ \E r \in TwiceMeta : MetaAttempt(r)
    \/ MetaReturn
    \/ \E r \in Brief(PlaylistItemsAnswers) : ExplicitItems(r)
    \/ Finish
    \/ Rerun

TwiceSpec == TwiceInit /\ [][TwiceNext]_vars

\* ---------------------------------------------------------------- properties
Range(s) == {s[i] : i \in DOMAIN s}
Count(s, x) == Cardinality({i \in DOMAIN s : s[i] = x})
Empty(u) == u \in {"", None, Raise}

\* a thumbnails value that is a list holding a record with a non-empty url
HasUrl(thumbs) ==
    /\ thumbs.k = "list"
    /\ \E i \in DOMAIN thumbs.v : thumbs.v[i].k = "rec" /\ thumbs.v[i].url # ""
NoJunk(thumbs) == \A i \in DOMAIN thumbs.v : thumbs.v[i].k # "junk"

\* the full probe succeeded with a title and a thumbnail (root or first entry)
SucceedsWithTitleAndThumb(r) ==
    /\ r.ok
    /\ r.j.title.k = "str"
    /\ NoJunk(r.j.thumbnails)
    /\ \/ HasUrl(r.j.thumbnails)
       \/ /\ r.j.entries.k = "list"
          /\ r.j.entries.v # <<>>
          /\ r.j.entries.v[1].k # "junk"
          /\ NoJunk(r.j.entries.v[1].thumbnails)
          /\ HasUrl(r.j.entries.v[1].thumbnails)

\* s without its leading and trailing blanks
Trimmed(s) ==
    LET keep == {i \in DOMAIN s : s[i] # " "}
    IN  IF keep = {} THEN <<>>
        ELSE SubSeq(s, CHOOSE i \in keep : \A j \in keep : i <= j,
                       CHOOSE i \in keep : \A j \in keep : i >= j)

\* C1: when fetch_playlist_meta returns and its oEmbed lookup returned a
\* document (a body with a non-empty thumbnail_url), the value returned is
\* that document, tagged "oembed", and yt-dlp was not invoked during the call.
C1_LightweightWins ==
    pc = "meta_ret" =>
        /\ (/\ lookup.o.kind = "ok"
            /\ lookup.o.thumbnail_url # ""
            /\ lookup.o.title.k # "nonstr") => lookup.ret.some
        /\ lookup.ret.some =>
              /\ meta.some
              /\ meta.doc.source = "oembed"
              /\ meta.doc.thumbnail = lookup.o.thumbnail_url
              /\ ~Empty(meta.doc.thumbnail)
              /\ calls.probes = 0

C1_Witness ==
    /\ pc = "meta_ret"
    /\ lookup.ret.some
    /\ retries = MaxRetries
    /\ calls.lookups = 1

\* C2: every file at a final path is a complete document at all times, also
\* after the process dies inside write_json; a step changes a final path only
\* by the rename, which puts the complete new document there; no other step
\* changes or removes a final path.
C2_RenameOnlyMutation ==
    /\ [](\A p \in DOMAIN fs : fs[p].state = "complete")
    /\ [][/\ DOMAIN fs \subseteq DOMAIN fs'
          /\ \A p \in DOMAIN fs' :
                \/ p \in DOMAIN fs /\ fs'[p] = fs[p]
                \/ /\ pc = "write_replace"
                   /\ p = wr.path
                   /\ fs'[p] = File("complete", wr.doc)]_vars

C2_Witness ==
    /\ pc = "crashed"
    /\ \E p \in DOMAIN tmpfs :
          /\ tmpfs[p].state = "partial"
          /\ p \in DOMAIN fs
          /\ fs[p].state = "complete"
          /\ fs[p].doc # tmpfs[p].doc

\* C3: when videos.json loads and the run ends, its exit status is 2 exactly
\* when no document was written and 0 exactly when at least one was.
C3_ExitByTally ==
    (pc = "exit" /\ input.exists) =>
        /\ exitStatus = 2 <=> Len(writeLog) = 0
        /\ exitStatus = 0 <=> Len(writeLog) >= 1

C3_Witness ==
    /\ pc = "exit"
    /\ input.exists
    /\ Len(input.items) = MaxItems
    /\ exitStatus = 2

\* C4: when videos.json is missing the run goes from its start straight to
\* exit status 1: no file is written, temporary or final, and neither yt-dlp
\* nor oEmbed is invoked.
C4_MissingInputFatal ==
    ~input.exists =>
        /\ pc \in {"main", "exit"}
        /\ pc = "exit" => exitStatus = 1
        /\ fs = <<>> /\ tmpfs = <<>> /\ writeLog = <<>>
        /\ calls = NoCall /\ lookup = NoLookup /\ avatarLog = <<>>

C4_Witness == ~input.exists /\ pc = "exit" /\ exitStatus = 1

\* the channel ids videos.json declares in a role, read off the file itself
Declared(type) ==
    {input.items[i].channelId :
        i \in {n \in DOMAIN input.items : /\ input.items[n].type = type
                                          /\ input.items[n].channelId # <<>>}}
DeclaredPlaylists ==
    {input.items[i].id :
        i \in {n \in DOMAIN input.items : /\ input.items[n].type = "youtube_playlist"
                                          /\ input.items[n].id # <<>>}}
TypeOfRole(role) ==
    IF role = "playlists" THEN "youtube_channel_playlists" ELSE "youtube_channel_shorts"

\* every declared source has had its document written
AllSourcesProcessed ==
    /\ \A role \in {"playlists", "shorts"} :
          \A c \in Declared(TypeOfRole(role)) : Path(role, c) \in Range(writeLog)
    /\ \A pl \in DeclaredPlaylists : Path("playlist_items", pl) \in Range(writeLog)

\* C5: a run that is not killed and whose videos.json loads always reaches
\* its tally and ends with status 0 or 2, with the document of every declared
\* channel role and the items document of every declared playlist written,
\* whatever failures the probes and lookups of any source met.
C5_FailuresNeverHalt ==
    input.exists ~> (/\ pc = "exit"
                     /\ exitStatus \in {0, 2}
                     /\ AllSourcesProcessed)

\* the first source's probes all failed and a later source was still processed
C5_Witness ==
    /\ pc = "exit"
    /\ Len(writeLog) >= 2
    /\ writeLog[1].dir \in {"playlists", "shorts"}
    /\ writeLog[1] \notin okSrc
    /\ writeLog[Len(writeLog)] # writeLog[1]
    /\ writeLog[Len(writeLog)] \in okSrc \/ writeLog[Len(writeLog)].dir = "playlist_items"

\* C6: at the end of a run, a declared channel role none of whose probes
\* succeeded has had its document written exactly once, with items [] and
\* channelAvatar null, and the exit status is 0.
C6_AllProbesFail ==
    (pc = "exit" /\ input.exists) =>
        \A role \in {"playlists", "shorts"} :
            \A c \in Declared(TypeOfRole(role)) :
                Path(role, c) \notin okSrc =>
                    /\ Count(writeLog, Path(role, c)) = 1
                    /\ Path(role, c) \in DOMAIN fs
                    /\ fs[Path(role, c)].doc.channelId = c
                    /\ fs[Path(role, c)].doc.items = <<>>
                    /\ fs[Path(role, c)].doc.channelAvatar = None
                    /\ exitStatus = 0

\* one channel descriptor, every probe failed, one document written
C6_Witness ==
    /\ pc = "exit"
    /\ Len(input.items) = 1
    /\ okSrc = {}
    /\ Len(writeLog) = 1
    /\ exitStatus = 0

\* C7: fetch_channel_avatar runs at most once per channel id in a run, and
\* the two documents of a channel declared in both roles carry the same
\* channelAvatar.
C7_AvatarMemoized ==
    /\ \A c \in {avatarLog[i].ch : i \in DOMAIN avatarLog} :
          Cardinality({i \in DOMAIN avatarLog : avatarLog[i].ch = c}) <= 1
    /\ \A p \in DOMAIN fs : \A q \in DOMAIN fs :
          (/\ p.dir = "playlists" /\ q.dir = "shorts" /\ p.name = q.name)
              => fs[p].doc.channelAvatar = fs[q].doc.channelAvatar

\* ids of the entries of a flat listing, as (entry.get("id") or "")
EntryIds(r) == [i \in DOMAIN EntriesOf(r.j) |-> OrEmpty(EntriesOf(r.j)[i].id)]
ItemIds(items) == [i \in DOMAIN items |-> items[i].id]
HasPlaylistPrefix(id) == Len(id) >= 2 /\ id[1] = "P" /\ id[2] = "L"
\* no entry of the answer is a non-record and no thumbnails list holds one
WellFormed(r) ==
    \A i \in DOMAIN EntriesOf(r.j) :
        /\ EntriesOf(r.j)[i].k # "junk"
        /\ NoJunk(EntriesOf(r.j)[i].thumbnails)
RECURSIVE IsSubsequence(_, _)
IsSubsequence(a, b) ==
    IF a = <<>> THEN TRUE
    ELSE IF b = <<>> THEN FALSE
    ELSE IF Head(a) = Head(b) THEN IsSubsequence(Tail(a), Tail(b))
    ELSE IsSubsequence(a, Tail(b))

\* C8: for every answer of the probe, collect_playlists returns only items
\* whose id starts with "PL", collect_channel_videos and
\* collect_playlist_items return no item with an empty id, the items are a
\* subsequence of the probe's entries, and on a well-formed answer they are
\* exactly the entries that pass the test, in the probe's order.
C8_CollectorFilters ==
    pc = "returned" =>
        /\ fname = "collect_playlists" =>
              \A i \in DOMAIN fret : HasPlaylistPrefix(fret[i].id)
        /\ fname # "collect_playlists" => \A i \in DOMAIN fret : fret[i].id # <<>>
        /\ IsSubsequence(ItemIds(fret), EntryIds(farg))
        /\ (farg.ok /\ WellFormed(farg)) =>
              ItemIds(fret) =
                  SelectSeq(EntryIds(farg),
                            LAMBDA id : IF fname = "collect_playlists"
                                        THEN HasPlaylistPrefix(id) ELSE id # <<>>)

\* two playlists kept in the probe's order around a dropped mix
C8_Witness ==
    /\ pc = "returned"
    /\ fname = "collect_playlists"
    /\ EntryIds(farg) = <<PL2, VIDMIX, PL1>>
    /\ ItemIds(fret) = <<PL2, PL1>>

\* the tiers of fetch_playlist_meta that gave no usable thumbnail
LookupWithoutThumb == lookup.o.kind # "ok" \/ lookup.o.thumbnail_url = ""
ProbeWithoutThumb ==
    \/ ~probeSeen.ok
    \/ /\ ~HasUrl(probeSeen.j.thumbnails)
       /\ \/ EntriesOf(probeSeen.j) = <<>>
          \/ ~HasUrl(EntriesOf(probeSeen.j)[1].thumbnails)

\* C9: a document returned by fetch_playlist_meta has a non-empty thumbnail,
\* and so has every file under playlist_meta; when neither the oEmbed body
\* nor the yt-dlp answer has a thumbnail the call returns None; a None
\* return is followed by no write of a meta document, and a meta document is
\* written only as the value the call returned.
C9_MetaNeedsThumbnail ==
    /\ [](\A p \in DOMAIN fs :
            p.dir = "playlist_meta" =>
                /\ ~Empty(fs[p].doc.thumbnail)
                /\ fs[p].doc.playlistId = p.name)
    /\ [](pc = "meta_ret" =>
            /\ meta.some => ~Empty(meta.doc.thumbnail)
            /\ (LookupWithoutThumb /\ ProbeWithoutThumb) => ~meta.some)
    /\ [][(pc = "meta_ret" /\ ~meta.some) =>
            (pc' = "explicit_items" /\ wr' = wr /\ fs' = fs /\ tmpfs' = tmpfs)]_vars
    /\ [][(writeLog' # writeLog /\ wr.path.dir = "playlist_meta") =>
            (meta.some /\ fs'[wr.path] = File("complete", meta.doc))]_vars

\* both tiers answered, neither with a thumbnail
C9_Witness ==
    /\ pc = "meta_ret"
    /\ ~meta.some
    /\ lookup.o.kind = "ok"
    /\ probeSeen.ok

\* C10: a lookup that yields no document makes fetch_playlist_meta go on to
\* yt-dlp, and when the last yt-dlp answer succeeds with a title and a
\* thumbnail the document returned is tagged "yt-dlp" and carries that title
\* unchanged.
C10_FallbackCarriesTitle ==
    (pc = "meta_ret" /\ ~lookup.ret.some) =>
        /\ calls.probes >= 1
        /\ SucceedsWithTitleAndThumb(probeSeen) =>
              /\ meta.some
              /\ meta.doc.source = "yt-dlp"
              /\ meta.doc.title = probeSeen.j.title.s

\* C10 as amended: ... carries that title with its leading and trailing
\* whitespace removed.
C10_FallbackCarriesTrimmedTitle ==
    (pc = "meta_ret" /\ ~lookup.ret.some) =>
        /\ calls.probes >= 1
        /\ calls.lookups = 1
        /\ SucceedsWithTitleAndThumb(probeSeen) =>
              /\ meta.some
              /\ meta.doc.source = "yt-dlp"
              /\ meta.doc.title = Trimmed(probeSeen.j.title.s)
              /\ meta.doc.playlistId = pl_ids[idx]
              /\ ~Empty(meta.doc.thumbnail)

\* HTTP 404 from oEmbed, then a full probe that succeeds with a padded title
C10_Witness ==
    /\ pc = "meta_ret"
    /\ lookup.o.kind = "HTTP404"
    /\ SucceedsWithTitleAndThumb(probeSeen)
    /\ probeSeen.j.title.s = TitlePadded
    /\ meta.some
    /\ meta.doc.title = TitleMy

\* index of the last record of s that has a non-empty url (0: there is none)
LastUrlIndex(s) ==
    LET hits == {i \in DOMAIN s : s[i].k = "rec" /\ s[i].url # ""}
    IN  IF hits = {} THEN 0 ELSE CHOOSE i \in hits : \A j \in hits : i >= j

\* no element of s after index i is a non-record
RecordsAfter(s, i) == \A j \in DOMAIN s : j > i => s[j].k # "junk"

Blank(d) == [d EXCEPT !.generatedAt = 0]

\* C12: when the second of two runs on the same videos.json, given the same
\* answers call by call, has ended: it made exactly the calls of the first
\* run, the final paths are those the first run left, each was written again
\* in this run and holds a complete document with a later generatedAt that
\* equals the first run's document in every other field, and no temporary
\* file is left.
C12_SecondRunSameDocuments ==
    (run = 2 /\ pc = "exit") =>
        /\ pos = Len(tape) + 1
        /\ DOMAIN fs = DOMAIN first
        /\ Range(writeLog) = DOMAIN first
        /\ tmpfs = <<>>
        /\ \A p \in DOMAIN fs :
              /\ fs[p].state = "complete"
              /\ Blank(fs[p].doc) = Blank(first[p].doc)
              /\ fs[p].doc.generatedAt > first[p].doc.generatedAt

\* the second run has rewritten a meta document and a non-empty items
\* document among at least three
C12_Witness ==
    /\ run = 2
    /\ pc = "exit"
    /\ Cardinality(DOMAIN fs) >= 3
    /\ \E p \in DOMAIN fs : p.dir = "playlist_meta"
    /\ \E p \in DOMAIN fs : p.dir = "playlist_items" /\ fs[p].doc.items # <<>>
    /\ \E p \in DOMAIN fs : p.dir = "playlists" /\ Len(fs[p].doc.items) = 2

\* the try block of fetch_playlist_meta raises on this yt-dlp answer: the
\* probe failed, the title is no string, or a thumbnails value or first entry
\* that is read is malformed
AttemptRaises(r) ==
    \/ ~r.ok
    \/ r.j.title.k = "nonstr"
    \/ /\ r.j.thumbnails.k = "list"
       /\ ~RecordsAfter(r.j.thumbnails.v, LastUrlIndex(r.j.thumbnails.v))
    \/ /\ ~HasUrl(r.j.thumbnails)
       /\ EntriesOf(r.j) # <<>>
       /\ \/ EntriesOf(r.j)[1].k = "junk"
          \/ /\ EntriesOf(r.j)[1].thumbnails.k = "list"
             /\ ~RecordsAfter(EntriesOf(r.j)[1].thumbnails.v,
                              LastUrlIndex(EntriesOf(r.j)[1].thumbnails.v))

\* C13: in a call fetch_playlist_meta(pl, retries = N) yt-dlp is invoked at
\* most N times; attempt k+1 is made only after attempt k raised and after a
\* sleep of 3 seconds; the call sleeps only between two attempts, so on its
\* return it has slept 3 seconds for each attempt but the last, whether the
\* last attempt succeeded or failed.
C13_BoundedRetriesFixedBackoff ==
    /\ [](/\ calls.probes <= retries
          /\ pc = "attempt" => /\ calls.probes = attempt - 1
                               /\ calls.slept = BackoffSec * (attempt - 1)
                               /\ attempt > 1 => AttemptRaises(probeSeen)
          /\ pc = "sleep" => /\ calls.probes = attempt
                             /\ attempt < retries
                             /\ AttemptRaises(probeSeen)
          /\ pc = "meta_ret" =>
                calls.slept = IF calls.probes = 0 THEN 0
                              ELSE BackoffSec * (calls.probes - 1))
    /\ [][/\ calls'.slept # calls.slept =>
                /\ pc = "sleep" /\ pc' = "attempt"
                /\ calls'.slept = calls.slept + BackoffSec
                /\ calls'.probes = calls.probes
          /\ attempt' > attempt /\ attempt >= 1 =>
                /\ pc = "sleep"
                /\ attempt' = attempt + 1
                /\ calls'.slept = calls.slept + BackoffSec]_vars

\* every attempt but the last failed, the last succeeded
C13_Witness ==
    /\ pc = "meta_ret"
    /\ retries = MaxRetries
    /\ calls.probes = MaxRetries
    /\ calls.slept = BackoffSec * (MaxRetries - 1)
    /\ meta.some

\* the yt-dlp answer is read without an exception and has no thumbnail at
\* its root or in its first entry
ThumblessAnswer(r) ==
    /\ ~AttemptRaises(r)
    /\ ~HasUrl(r.j.thumbnails)
    /\ EntriesOf(r.j) = <<>> \/ ~HasUrl(EntriesOf(r.j)[1].thumbnails)

\* C19: an attempt of fetch_playlist_meta whose yt-dlp answer succeeds without
\* a thumbnail ends the call at once with None: no sleep and no further
\* attempt follows, whatever retries remain.
C19_ThumblessIsTerminal ==
    /\ [][(pc = "attempt" /\ ThumblessAnswer(probeSeen') /\ calls'.probes > calls.probes) =>
            /\ pc' = "meta_ret"
            /\ ~meta'.some
            /\ calls'.slept = calls.slept
            /\ attempt' = attempt]_vars
    /\ []((pc \in {"attempt", "sleep"} /\ calls.probes >= 1) =>
            ~ThumblessAnswer(probeSeen))
    /\ []((pc = "meta_ret" /\ calls.probes >= 1 /\ ThumblessAnswer(probeSeen)) =>
            ~meta.some)

\* the first of several allowed attempts got an answer without thumbnail
C19_Witness ==
    /\ pc = "meta_ret"
    /\ retries = MaxRetries
    /\ calls.probes = 1
    /\ calls.slept = 0
    /\ ThumblessAnswer(probeSeen)
    /\ ~meta.some

\* what reading a thumbnails value gives, said without the scan: None, the
\* url of the last record that has one, or Raise when an element that is no
\* record stands above it
Selected(t) ==
    IF t.k # "list" \/ t.v = <<>> THEN None
    ELSE IF ~RecordsAfter(t.v, LastUrlIndex(t.v)) THEN Raise
    ELSE IF LastUrlIndex(t.v) = 0 THEN None
    ELSE t.v[LastUrlIndex(t.v)].url

\* channel_thumbnails first, then thumbnails
RootSelected(j) ==
    IF Selected(j.channel_thumbnails) # None THEN Selected(j.channel_thumbnails)
    ELSE Selected(j.thumbnails)

\* the url stage 1 gets from the /about answer r; None: it raised or found none
Stage1Url(r) ==
    IF ~r.ok \/ RootSelected(r.j) = Raise THEN None ELSE RootSelected(r.j)

\* the url stage 2 gets from the /videos answer r
Stage2Url(r) ==
    IF ~r.ok \/ RootSelected(r.j) = Raise THEN None
    ELSE IF RootSelected(r.j) # None THEN RootSelected(r.j)
    ELSE IF EntriesOf(r.j) = <<>> THEN None
    ELSE IF EntriesOf(r.j)[1].k = "junk" THEN None
    ELSE IF Selected(EntriesOf(r.j)[1].uploader_thumbnails) = Raise THEN None
    ELSE Selected(EntriesOf(r.j)[1].uploader_thumbnails)

\* C14: fetch_channel_avatar probes /videos only after the /about probe raised
\* or gave no url; it returns the url of the first stage that gives one and
\* None exactly when neither does; whatever the two probes answer or raise,
\* the call returns to main with a url or None.
C14_AvatarFallback ==
    /\ pc = "avatar_videos" => /\ Len(tape) = 1
                               /\ calls.probes = 1
                               /\ Stage1Url(tape[1]) = None
    /\ pc = "list" =>
          /\ calls.fn = "fetch_channel_avatar"
          /\ calls.probes = Len(tape)
          /\ Len(tape) \in {1, 2}
          /\ Len(tape) = 1 => (Stage1Url(tape[1]) # None /\ avatar = Stage1Url(tape[1]))
          /\ Len(tape) = 2 => (Stage1Url(tape[1]) = None /\ avatar = Stage2Url(tape[2]))
          /\ avatar = None <=>
                (Len(tape) = 2 /\ Stage1Url(tape[1]) = None /\ Stage2Url(tape[2]) = None)
          /\ avatar # Raise
          /\ exitStatus = NoExit
    /\ pc \in {"avatar_about", "avatar_videos", "list"}

\* stage 1 raised inside the selector, stage 2 found the url in its first entry
C14_Witness ==
    /\ pc = "list"
    /\ Len(tape) = 2
    /\ tape[1].ok
    /\ RootSelected(tape[1].j) = Raise
    /\ RootSelected(tape[2].j) = None
    /\ avatar = "avatarC"

\* C15: outside the for-loop of fetch_playlist_meta nothing is tried twice:
\* a collector call has invoked yt-dlp exactly once when it returns, failed
\* or not; fetch_channel_avatar invokes it once per stage, at most twice; a
\* fetch_playlist_meta call makes its oEmbed lookup exactly once; and no call
\* outside fetch_playlist_meta ever sleeps or looks up oEmbed.
C15_SingleAttemptElsewhere ==
    /\ calls.fn \in CollectorNames =>
          (calls.probes = 1 /\ calls.lookups = 0 /\ calls.slept = 0)
    /\ calls.fn = "fetch_channel_avatar" =>
          /\ calls.lookups = 0 /\ calls.slept = 0
          /\ pc = "avatar_about" => calls.probes = 0
          /\ pc = "avatar_videos" => calls.probes = 1
          /\ pc # "avatar_about" => calls.probes \in {1, 2}
    /\ calls.fn = "fetch_playlist_meta" =>
          /\ pc = "oembed" => (calls.lookups = 0 /\ calls.probes = 0)
          /\ pc # "oembed" => calls.lookups = 1
    /\ pc = "list" => calls.fn = "fetch_channel_avatar"
    /\ pc = "avatar_about" => calls.fn = "fetch_channel_avatar"
    /\ pc = "explicit_items" => calls.fn = "fetch_playlist_meta"

\* a collector whose one probe failed has returned [] to main, after an
\* avatar resolution that used both of its stages
C15_Witness ==
    /\ pc = "write_open"
    /\ calls.fn = "collect_channel_videos"
    /\ calls.probes = 1
    /\ wr.doc.items = <<>>
    /\ ChannelPath \notin okSrc

\* videos.json holds a channel-role descriptor with a channelId or a
\* playlist descriptor with an id
Usable ==
    \E i \in DOMAIN input.items :
        \/ /\ input.items[i].type \in {"youtube_channel_playlists",
                                        "youtube_channel_shorts"}
           /\ input.items[i].channelId # <<>>
        \/ /\ input.items[i].type = "youtube_playlist"
           /\ input.items[i].id # <<>>

\* C16: when videos.json loads, the exit status of the run is fixed by the
\* input alone: 0 when it has a usable descriptor, 2 when it has none,
\* whatever the probes and lookups answered.
C16_ExitFixedByInput ==
    (pc = "exit" /\ input.exists) => exitStatus = IF Usable THEN 0 ELSE 2

\* one declared playlist, the lookup and every probe failed, exit status 0
C16_Witness ==
    /\ pc = "exit"
    /\ exitStatus = 0
    /\ Len(input.items) = 1
    /\ writeLog = <<Path("playlist_items", PL1)>>
    /\ fs[Path("playlist_items", PL1)].doc.items = <<>>
    /\ calls.fn = "collect_playlist_items"

\* C18: whenever main is between two sources or at its end, each playlists
\* document written in the run is followed in the order of writes, one by
\* one and before any other write (so before the next channel), by an items
\* document for each item it lists, in the order listed; each of these is in
\* place, complete and carries that playlist id, with empty items when its
\* listing probe failed.
C18_CascadePerListedPlaylist ==
    pc \in {"loop", "tally", "exit"} =>
        \A i \in DOMAIN writeLog :
            writeLog[i].dir = "playlists" =>
                LET ids == ItemIds(fs[writeLog[i]].doc.items)
                IN  /\ i + Len(ids) <= Len(writeLog)
                    /\ \A k \in DOMAIN ids :
                          /\ writeLog[i + k] = Path("playlist_items", ids[k])
                          /\ writeLog[i + k] \in DOMAIN fs
                          /\ fs[writeLog[i + k]].state = "complete"
                          /\ fs[writeLog[i + k]].doc.playlistId = ids[k]

\* a channel listing two playlists, the items probe of the first failed, and
\* the next channel's document written right after the two items documents
C18_Witness ==
    /\ pc = "exit"
    /\ Len(writeLog) = 4
    /\ writeLog[1] = Path("playlists", UC1)
    /\ ItemIds(fs[writeLog[1]].doc.items) = <<PL2, PL1>>
    /\ writeLog[2] = Path("playlist_items", PL2)
    /\ fs[writeLog[2]].doc.items = <<>>
    /\ fs[writeLog[3]].doc.items # <<>>
    /\ writeLog[4] = Path("playlists", UC2)

\* the role of main's loop that makes a write_json call
PhaseOfWrite(ret) ==
    CASE ret \in {"channel", "cascade"} -> "playlists"
      [] ret = "shorts" -> "shorts"
      [] ret \in {"meta", "explicit"} -> "explicit"
      [] OTHER -> ""

\* C20: at the end of a run each (channelId, role) pair declared in
\* videos.json has had its document written exactly once and its avatar
\* resolved exactly once, however often it is declared; no channel document
\* is written and no avatar resolved for anything else (a descriptor without
\* channelId); the loops run in the order playlists, shorts, declared
\* playlists, each write being made by the loop of its role, and a loop is
\* left only when its list is exhausted.
C20_OnePerPairInRoleOrder ==
    /\ []((pc = "exit" /\ input.exists) =>
            /\ \A role \in {"playlists", "shorts"} :
                  /\ \A c \in Declared(TypeOfRole(role)) :
                        /\ Count(writeLog, Path(role, c)) = 1
                        /\ Cardinality({i \in DOMAIN avatarLog :
                               avatarLog[i].ch = c /\ avatarLog[i].role = role}) = 1
                  /\ \A i \in DOMAIN writeLog :
                        writeLog[i].dir = role =>
                            writeLog[i].name \in Declared(TypeOfRole(role))
                  /\ \A i \in DOMAIN avatarLog :
                        avatarLog[i].role = role =>
                            avatarLog[i].ch \in Declared(TypeOfRole(role))
            /\ \A i \in DOMAIN writeLog : \A j \in DOMAIN writeLog :
                  i < j => /\ ~(writeLog[i].dir = "shorts" /\ writeLog[j].dir = "playlists")
                           /\ ~(/\ writeLog[i].dir = "playlist_meta"
                                /\ writeLog[j].dir \in {"playlists", "shorts"})
            /\ Cardinality({i \in DOMAIN writeLog : writeLog[i].dir = "playlist_items"})
                  >= Len(PlaylistIdsOf(input.items)))
    /\ []((pc \in {"avatar_about", "avatar_videos", "list"}) => Channel # <<>>)
    /\ [][writeLog' # writeLog => phase = PhaseOfWrite(wr.ret)]_vars
    /\ [][(phase' # phase /\ pc' # "crashed") =>
            \/ phase = "" /\ phase' = "playlists"
            \/ phase = "playlists" /\ phase' = "shorts" /\ idx = Len(ch_for_playlists)
            \/ phase = "shorts" /\ phase' = "explicit" /\ idx = Len(ch_for_shorts)]_vars

\* one (channelId, role) pair declared twice, one document written
C20_Witness ==
    /\ pc = "exit"
    /\ Len(input.items) = 2
    /\ input.items[1] = input.items[2]
    /\ input.items[1].type = "youtube_channel_shorts"
    /\ writeLog = <<Path("shorts", input.items[1].channelId)>>
    /\ Len(avatarLog) = 1

\* C17: on every value, lists with null elements, records without url and
\* elements that are no records included, _pick_thumb_from_list and
\* _pick_thumb_any return a url or None: no exception leaves them.
C17_SelectorsTotal ==
    pc = "returned" => fret # Raise

====
